---- MODULE Spec2Model ----
(***************************************************************************)
(* Maintenance page: the Express status service (server/server.js) and the *)
(* React client that polls it (src/App.tsx).                               *)
(*                                                                         *)
(* Time is in integer milliseconds, as Date.now() returns it; the model's  *)
(* epoch is the instant the server module is loaded.  A value the code     *)
(* holds in seconds (elapsedSeconds, remainingSeconds) is kept as the      *)
(* number of milliseconds it equals, so x/1000 >= y is x >= 1000*y.        *)
(* A progress percentage p is kept exactly, as the integer p*ProgressUnit. *)
(***************************************************************************)
EXTENDS Integers, Sequences, FiniteSets, TLC

VARIABLES clock, maintenanceState, maintenancePhases, res,
          maintenanceStatus, remainingTime,
          loading, error, pending, inflight

vars == <<clock, maintenanceState, maintenancePhases, res,
          maintenanceStatus, remainingTime,
          loading, error, pending, inflight>>

serverVars == <<clock, maintenanceState, maintenancePhases, res>>
\* pending: the requests fetch() has issued that are not answered yet;
\* inflight: the status responses on their way to the client, oldest first
fetchVars  == <<loading, error, pending, inflight>>
clientVars == <<maintenanceStatus, remainingTime, fetchVars>>

-----------------------------------------------------------------------------
(* Bounds of the model *)

\* largest advance of Date.now() between two reads inside one handler (ms)
MaxDrift == 1
\* clock readings are sampled up to this many ms after every phase boundary
\* and before the end of the run
Jitter == 1
\* largest distance (ms) a backward clock step may take the clock below startTime
MaxSkewMs == 2000
\* the formatter is applied to remaining times of up to this many minutes
MaxMinutes == 130
\* largest number of requests of the client that are unanswered at a time
MaxInFlight == 2

-----------------------------------------------------------------------------
(* Configuration: server.js:26-37 *)

Phases ==
  << [name |-> "Initializing maintenance",   progress |-> 10,  duration |-> 3],
     [name |-> "Backing up database",        progress |-> 25,  duration |-> 1800],
     [name |-> "Updating server components", progress |-> 45,  duration |-> 600],
     [name |-> "Applying security patches",  progress |-> 65,  duration |-> 600],
     [name |-> "Optimizing performance",     progress |-> 80,  duration |-> 600],
     [name |-> "Running final tests",        progress |-> 95,  duration |-> 600],
     [name |-> "Maintenance complete",       progress |-> 100, duration |-> 600] >>

RECURSIVE SumDurations(_, _)
SumDurations(phases, n) ==
  IF n = 0 THEN 0 ELSE SumDurations(phases, n - 1) + phases[n].duration

\* maintenancePhases.reduce((total, phase) => total + phase.duration, 0)
totalDurationSeconds == SumDurations(maintenancePhases, Len(maintenancePhases))

TotalMs == 1000 * totalDurationSeconds

RECURSIVE Gcd(_, _)
Gcd(a, b) == IF b = 0 THEN a ELSE Gcd(b, a % b)

RECURSIVE LcmDurations(_, _)
LcmDurations(phases, n) ==
  IF n = 0 THEN 1
  ELSE LET l == LcmDurations(phases, n - 1)
           d == phases[n].duration
       IN  (l \div Gcd(l, d)) * d

\* one percent of progress, in the integer unit that makes every quotient
\* (elapsed ms within a phase) / (1000 * duration) * range exact
ProgressUnit == 1000 * LcmDurations(Phases, Len(Phases))

Min(a, b) == IF a <= b THEN a ELSE b
Max(a, b) == IF a >= b THEN a ELSE b

-----------------------------------------------------------------------------
(* The clock readings the model samples *)

\* cumulative end of phase i (1-based) of the configuration, in ms
EndMs(i) == 1000 * SumDurations(Phases, i)

\* the values Date.now() is sampled at: the load instant and the ms after
\* it; for the run started at load, every phase boundary and the ms after
\* it, and the ms before the end of the run
Instants ==
  (0..Jitter)
  \cup { EndMs(i) + j : i \in 1..Len(Phases), j \in 0..Jitter }
  \cup { EndMs(Len(Phases)) - j : j \in 1..Jitter }

-----------------------------------------------------------------------------
(* Progress calculator: server.js:40-85 *)

\* the clock readings a handler that last read `t` may obtain next
LaterReads(t) == { u \in Instants : t <= u /\ u <= t + MaxDrift }

\* mutant of IsOver: > for >=
IsOverStrict(elapsedMs) == elapsedMs > TotalMs

\* elapsedSeconds >= totalDurationSeconds
IsOver(elapsedMs) == elapsedMs >= TotalMs

\* mutant of CompleteResult: the index one past the last phase
CompleteResultPastEnd ==
  [progress   |-> 100 * ProgressUnit,
   phaseIndex |-> Len(maintenancePhases),
   isComplete |-> TRUE]

\* the result of both completion returns
CompleteResult ==
  [progress   |-> 100 * ProgressUnit,
   phaseIndex |-> Len(maintenancePhases) - 1,
   isComplete |-> TRUE]

\* mutant of InPhase: < for <=
InPhaseStrict(elapsedMs, phaseEndTime) == elapsedMs < 1000 * phaseEndTime

\* elapsedSeconds <= phaseEndTime
InPhase(elapsedMs, phaseEndTime) == elapsedMs <= 1000 * phaseEndTime

\* mutant of phaseStartProgress: every phase starts from 0
phaseStartProgressZero(i) == 0

\* i > 0 ? maintenancePhases[i - 1].progress : 0     (i is 0-based)
phaseStartProgress(i) == IF i > 0 THEN maintenancePhases[i].progress ELSE 0

\* the body of the if inside the loop, for the 0-based phase i
PhaseResult(i, accumulatedTime, elapsedMs) ==
  LET phase              == maintenancePhases[i + 1]
      phaseProgressRange == phase.progress - phaseStartProgress(i)
      phaseElapsedTime   == elapsedMs - 1000 * accumulatedTime
      phaseProgress      == phaseElapsedTime * phaseProgressRange
                              * (ProgressUnit \div (1000 * phase.duration))
      totalProgress      == phaseStartProgress(i) * ProgressUnit + phaseProgress
  IN  [progress   |-> Min(totalProgress, phase.progress * ProgressUnit),
       phaseIndex |-> i,
       isComplete |-> FALSE]

RECURSIVE PhaseLoop(_, _, _)
PhaseLoop(i, accumulatedTime, elapsedMs) ==
  IF i >= Len(maintenancePhases)
    THEN CompleteResult
    ELSE LET phase        == maintenancePhases[i + 1]
             phaseEndTime == accumulatedTime + phase.duration
         IN  IF InPhase(elapsedMs, phaseEndTime)
               THEN PhaseResult(i, accumulatedTime, elapsedMs)
               ELSE PhaseLoop(i + 1, accumulatedTime + phase.duration, elapsedMs)

\* mutant of calculateCurrentProgress: the elapsed time is taken from the
\* stored lastUpdated instead of the clock
calculateCurrentProgressStale(state, now) ==
  LET elapsedMs == state.lastUpdated - state.startTime
  IN  IF IsOver(elapsedMs) THEN CompleteResult ELSE PhaseLoop(0, 0, elapsedMs)

\* `state` is the global maintenanceState, `now` the value of Date.now()
calculateCurrentProgress(state, now) ==
  LET elapsedMs == now - state.startTime
  IN  IF IsOver(elapsedMs) THEN CompleteResult ELSE PhaseLoop(0, 0, elapsedMs)

-----------------------------------------------------------------------------
(* Status service: server.js:17-23, 90-127 *)

NoBody == [kind |-> "none"]

FreshState(startTime, lastUpdated) ==
  [startTime         |-> startTime,
   currentProgress   |-> 0,
   currentPhaseIndex |-> 0,
   isComplete        |-> FALSE,
   lastUpdated       |-> lastUpdated]

\* maintenancePhases[currentState.phaseIndex] || maintenancePhases[length - 1]
CurrentPhase(phaseIndex) ==
  IF phaseIndex \in 0..(Len(maintenancePhases) - 1)
    THEN maintenancePhases[phaseIndex + 1]
    ELSE maintenancePhases[Len(maintenancePhases)]

\* the JSON body of GET /api/maintenance/status; now is the clock read by
\* calculateCurrentProgress, now3 the one read for the remaining time
StatusBody(state, now, now3) ==
  LET currentState     == calculateCurrentProgress(state, now)
      elapsedMs        == now3 - state.startTime
      remainingSeconds == Max(0, TotalMs - elapsedMs)
  IN  [kind                 |-> "status",
       progress             |-> currentState.progress,
       phaseIndex           |-> currentState.phaseIndex,
       currentPhase         |-> CurrentPhase(currentState.phaseIndex),
       isComplete           |-> currentState.isComplete,
       remainingTimeSeconds |-> remainingSeconds,
       startTime            |-> state.startTime,
       phases               |-> maintenancePhases]

\* mutant of Status: a status read of a finished run starts a new run
StatusRestarts(now2, now3) ==
  /\ now2 \in LaterReads(clock)
  /\ now3 \in LaterReads(now2)
  /\ LET currentState == calculateCurrentProgress(maintenanceState, clock)
     IN  maintenanceState' =
           [maintenanceState EXCEPT
              !.startTime         = IF currentState.isComplete THEN clock ELSE @,
              !.currentProgress   = currentState.progress,
              !.currentPhaseIndex = currentState.phaseIndex,
              !.isComplete        = currentState.isComplete,
              !.lastUpdated       = now2]
  /\ res' = StatusBody(maintenanceState, clock, now3)
  /\ clock' = now3
  /\ UNCHANGED <<maintenancePhases, clientVars>>

\* GET /api/maintenance/status; the handler reads the clock at its start
\* (inside calculateCurrentProgress), then at now2 and at now3
ServeStatus(now2, now3) ==
  /\ now2 \in LaterReads(clock)
  /\ now3 \in LaterReads(now2)
  /\ LET currentState == calculateCurrentProgress(maintenanceState, clock)
     IN  maintenanceState' =
           [maintenanceState EXCEPT
              !.currentProgress   = currentState.progress,
              !.currentPhaseIndex = currentState.phaseIndex,
              !.isComplete        = currentState.isComplete,
              !.lastUpdated       = now2]
  /\ res' = StatusBody(maintenanceState, clock, now3)
  /\ clock' = now3
  /\ UNCHANGED maintenancePhases

\* the status handler answering a requester other than the modelled client
Status(now2, now3) ==
  /\ ServeStatus(now2, now3)
  /\ UNCHANGED clientVars

\* mutant of Reset: the stored results are cleared, the start timestamp kept
ResetKeepsStart(now2) ==
  /\ now2 \in LaterReads(clock)
  /\ maintenanceState' = FreshState(maintenanceState.startTime, now2)
  /\ res' = [kind    |-> "reset",
             message |-> "Maintenance state reset",
             state   |-> maintenanceState']
  /\ clock' = now2
  /\ UNCHANGED <<maintenancePhases, clientVars>>

\* POST /api/maintenance/reset; startTime is read from the clock at the
\* handler's start, lastUpdated at now2
Reset(now2) ==
  /\ now2 \in LaterReads(clock)
  /\ maintenanceState' = FreshState(clock, now2)
  /\ res' = [kind    |-> "reset",
             message |-> "Maintenance state reset",
             state   |-> maintenanceState']
  /\ clock' = now2
  /\ UNCHANGED <<maintenancePhases, clientVars>>

\* time passes between two requests
Tick(t) ==
  /\ t \in Instants
  /\ t > clock
  /\ clock' = t
  /\ UNCHANGED <<maintenanceState, maintenancePhases, res, clientVars>>

\* the wall clock is stepped back (Date.now() is not monotonic)
ClockBack(t) ==
  /\ t \in Instants
  /\ t < clock
  /\ t >= maintenanceState.startTime - MaxSkewMs
  /\ clock' = t
  /\ UNCHANGED <<maintenanceState, maintenancePhases, res, clientVars>>

-----------------------------------------------------------------------------
(* Display client: App.tsx:49-66, 122-123 *)

\* Math.ceil(remainingSeconds / 60), remainingSeconds given in ms
CeilMinutes(remainingMs) == (remainingMs + 59999) \div 60000

getRemainingTime(remainingMs) ==
  IF remainingMs <= 0 THEN "Complete"
  ELSE LET remainingMinutes == CeilMinutes(remainingMs)
           hours            == remainingMinutes \div 60
           minutes          == remainingMinutes % 60
       IN  IF remainingMinutes < 60
             THEN ToString(remainingMinutes) \o " minutes"
           ELSE IF minutes = 0
             THEN (IF hours = 1 THEN "1 hour" ELSE ToString(hours) \o " hours")
           ELSE (IF hours = 1
                   THEN "1 hour " \o ToString(minutes) \o " minutes"
                   ELSE ToString(hours) \o " hours " \o ToString(minutes)
                          \o " minutes")

\* the null of the error state
NoError == "null"

\* the message of setError in the catch block
FetchError == "Failed to connect to server"

\* the three alternatives of the render: App.tsx:79, 103, 125
ShowsLoading == loading
ShowsError   == ~loading /\ (error # NoError \/ maintenanceStatus = NoBody)
ShowsNormal  == ~loading /\ ~(error # NoError \/ maintenanceStatus = NoBody)

RemoveAt(seq, i) == SubSeq(seq, 1, i - 1) \o SubSeq(seq, i + 1, Len(seq))

\* fetchMaintenanceStatus is called, on mount or by the 2 s interval: the
\* request leaves
Fetch ==
  /\ pending + Len(inflight) < MaxInFlight
  /\ pending' = pending + 1
  /\ UNCHANGED <<serverVars, maintenanceStatus, remainingTime,
                 loading, error, inflight>>

\* the Retry button of the error state calls fetchMaintenanceStatus
Retry ==
  /\ ShowsError
  /\ pending + Len(inflight) < MaxInFlight
  /\ pending' = pending + 1
  /\ UNCHANGED <<serverVars, maintenanceStatus, remainingTime,
                 loading, error, inflight>>

\* the server answers a request of the client; the response leaves
Respond ==
  /\ pending > 0
  /\ ServeStatus(clock, clock)
  /\ pending' = pending - 1
  /\ inflight' = Append(inflight, res')
  /\ UNCHANGED <<maintenanceStatus, remainingTime, loading, error>>

\* mutant of FetchFails: setLoading(false) is not reached on a failure
FetchFailsStillLoading ==
  /\ pending > 0
  /\ pending' = pending - 1
  /\ error' = FetchError
  /\ UNCHANGED <<serverVars, maintenanceStatus, remainingTime, loading,
                 inflight>>

\* a request fails (fetch rejects or the status is not ok): catch, finally
FetchFails ==
  /\ pending > 0
  /\ pending' = pending - 1
  /\ error' = FetchError
  /\ loading' = FALSE
  /\ UNCHANGED <<serverVars, maintenanceStatus, remainingTime, inflight>>

\* mutant of Arrive: a snapshot with less progress than the displayed one
\* of the same run is dropped
ArriveNewer(i) ==
  /\ i \in 1..Len(inflight)
  /\ maintenanceStatus' =
       IF /\ maintenanceStatus # NoBody
          /\ maintenanceStatus.startTime = inflight[i].startTime
          /\ maintenanceStatus.progress > inflight[i].progress
         THEN maintenanceStatus
         ELSE inflight[i]
  /\ error' = NoError
  /\ loading' = FALSE
  /\ inflight' = RemoveAt(inflight, i)
  /\ UNCHANGED <<serverVars, remainingTime, pending>>

\* the i-th response on its way arrives: setMaintenanceStatus(data),
\* setError(null), finally setLoading(false)
Arrive(i) ==
  /\ i \in 1..Len(inflight)
  /\ maintenanceStatus' = inflight[i]
  /\ error' = NoError
  /\ loading' = FALSE
  /\ inflight' = RemoveAt(inflight, i)
  /\ UNCHANGED <<serverVars, remainingTime, pending>>

\* const remainingTime = getRemainingTime(remainingTimeSeconds)
Render ==
  /\ maintenanceStatus.kind = "status"
  /\ remainingTime' = getRemainingTime(maintenanceStatus.remainingTimeSeconds)
  /\ UNCHANGED <<serverVars, maintenanceStatus, fetchVars>>

-----------------------------------------------------------------------------
(* Specifications *)

\* module load: startTime and lastUpdated are two reads of the clock
InitServer ==
  /\ maintenancePhases = Phases
  /\ \E now2 \in { u \in Instants : 0 <= u /\ u <= MaxDrift } :
       /\ maintenanceState = FreshState(0, now2)
       /\ clock = now2
  /\ res = NoBody

\* useState(null), useState(true), useState(null): App.tsx:21-23
InitFetch ==
  /\ loading = TRUE
  /\ error = NoError
  /\ pending = 0
  /\ inflight = << >>

Init ==
  /\ InitServer
  /\ maintenanceStatus = NoBody
  /\ remainingTime = ""
  /\ InitFetch

StatusAny == \E now2 \in LaterReads(clock) :
               \E now3 \in LaterReads(now2) : Status(now2, now3)
ResetAny  == \E now2 \in LaterReads(clock) : Reset(now2)
TickAny   == \E t \in Instants : Tick(t)
BackAny   == \E t \in Instants : ClockBack(t)

Next == TickAny \/ StatusAny \/ ResetAny

\* the server under a clock that never goes back
Spec == Init /\ [][Next]_vars

\* requests keep coming (the client polls every 2 s) and time keeps passing
FairSpec == Spec /\ WF_vars(TickAny) /\ WF_vars(StatusAny)

NextSkew == Next \/ BackAny

\* the server under a wall clock that may be stepped back
SkewSpec == Init /\ [][NextSkew]_vars

\* the remaining times the formatter is applied to, in ms: every whole
\* minute up to MaxMinutes and its neighbours
FmtInputs == { Max(0, 60000 * m + j) : m \in 0..MaxMinutes, j \in {-1, 0, 1} }

InitFmt ==
  /\ InitServer
  /\ \E r \in FmtInputs :
       maintenanceStatus =
         [StatusBody(maintenanceState, clock, clock)
            EXCEPT !.remainingTimeSeconds = r]
  /\ remainingTime = ""
  /\ loading = FALSE
  /\ error = NoError
  /\ pending = 0
  /\ inflight = << >>

NextFmt == Render

\* the client rendering a received snapshot
FmtSpec == InitFmt /\ [][NextFmt]_vars

\* the instants the client's requests are sampled at: the phase boundaries
PollInstants == { EndMs(i) : i \in 1..Len(Phases) }

TickPoll  == \E t \in PollInstants : Tick(t)
ArriveAny == \E i \in 1..Len(inflight) : Arrive(i)

NextClient == TickPoll \/ Fetch \/ Retry \/ Respond \/ FetchFails \/ ArriveAny

\* one client polling the server during the run started at load
ClientSpec == Init /\ [][NextClient]_vars

-----------------------------------------------------------------------------
(* Claims *)

IsStatus(body) == body.kind = "status"

\* a step of the status handler; the first two conjuncts follow from the
\* third and spare its evaluation on the steps of other actions
StatusStep ==
  /\ IsStatus(res')
  /\ clock' \in clock..(clock + 2 * MaxDrift)
  /\ StatusAny

\* two consecutive responses are status snapshots of the same run
SameRun == IsStatus(res) /\ IsStatus(res') /\ res'.startTime = res.startTime

\* the elapsed time the progress calculator sees in a status read that
\* starts in the current state
ElapsedMs == clock - maintenanceState.startTime

LastIndex == Len(Phases) - 1

\* C1: for a fixed start timestamp the progress of successive status reads
\* never decreases as the clock advances, and every returned progress lies
\* between 0 and 100
C1_ProgressMonotone ==
  /\ [][SameRun => res'.progress >= res.progress]_vars
  /\ [](IsStatus(res) =>
          /\ res.progress >= 0
          /\ res.progress <= 100 * ProgressUnit)

\* a snapshot taken inside the third phase, strictly between two boundaries
C1_Witness ==
  /\ IsStatus(res)
  /\ res.phaseIndex = 2
  /\ res.progress > 25 * ProgressUnit
  /\ res.progress < 45 * ProgressUnit

\* C2: in every status response isComplete holds exactly when the remaining
\* time is 0
C2_CompleteIffNoRemaining ==
  IsStatus(res) => (res.isComplete <=> res.remainingTimeSeconds = 0)

\* C3: for a fixed start timestamp the phaseIndex of successive status
\* reads never decreases, it is always an index of the phase list, and
\* currentPhase is the phase at that index
C3_PhaseIndexMonotone ==
  /\ [][SameRun => res'.phaseIndex >= res.phaseIndex]_vars
  /\ [](IsStatus(res) =>
          /\ res.phaseIndex \in 0..LastIndex
          /\ res.currentPhase = Phases[res.phaseIndex + 1])

\* a complete snapshot: the index is the last one and names the last phase
C3_Witness ==
  /\ IsStatus(res)
  /\ res.isComplete
  /\ res.phaseIndex = LastIndex
  /\ res.currentPhase.name = "Maintenance complete"

\* C4 as stated: a status read at exactly the cumulative end of a non-final
\* phase i returns that phase's progress value and the phase index i+1
C4_BoundaryIndexNext ==
  [][\A i \in 0..(LastIndex - 1) :
       (ElapsedMs = EndMs(i + 1) /\ StatusStep) =>
         /\ res'.progress = Phases[i + 1].progress * ProgressUnit
         /\ res'.phaseIndex = i + 1]_vars

\* C4 amended: a status read at exactly the cumulative end of a non-final
\* phase i returns that phase's progress value and still the phase index i;
\* a read one millisecond later returns the index i+1
C4_BoundaryIndexSame ==
  [][\A i \in 0..(LastIndex - 1) :
       /\ (ElapsedMs = EndMs(i + 1) /\ StatusStep) =>
            /\ res'.progress = Phases[i + 1].progress * ProgressUnit
            /\ res'.phaseIndex = i
       /\ (ElapsedMs = EndMs(i + 1) + 1 /\ StatusStep) =>
            res'.phaseIndex = i + 1]_vars

\* a snapshot of the run started at load, taken at elapsed = 3 s
C4_Witness ==
  /\ IsStatus(res)
  /\ res.startTime = 0
  /\ res.progress = 10 * ProgressUnit
  /\ res.phaseIndex = 0
  /\ res.remainingTimeSeconds = TotalMs - 3000
  /\ clock = 3000

\* C5: a status read at an elapsed time of at least the total duration
\* returns progress 100, the last index, isComplete and no remaining time;
\* once a status read has returned isComplete so does the next one unless a
\* reset came between; and if the start timestamp is never replaced, a
\* status read eventually returns isComplete
C5_CompleteStaysComplete ==
  /\ [][(ElapsedMs >= TotalMs /\ StatusStep) =>
          /\ res'.progress = 100 * ProgressUnit
          /\ res'.phaseIndex = LastIndex
          /\ res'.isComplete
          /\ res'.remainingTimeSeconds = 0]_vars
  /\ [][(IsStatus(res) /\ res.isComplete /\ IsStatus(res')) =>
          res'.isComplete]_vars
  /\ <>(maintenanceState.startTime # 0
          \/ (IsStatus(res) /\ res.isComplete))

\* a complete snapshot taken exactly when the total duration has elapsed
C5_Witness ==
  /\ IsStatus(res)
  /\ res.isComplete
  /\ res.remainingTimeSeconds = 0
  /\ clock - res.startTime = TotalMs

\* C6: a reset replaces the start timestamp by the current clock reading
\* and leaves the phase list alone; the status read that follows a reset
\* with the clock still at the new start timestamp returns progress 0,
\* index 0 and isComplete false, and the same phase list
C6_ResetRestarts ==
  /\ [][ResetAny =>
          /\ maintenanceState'.startTime = clock
          /\ maintenancePhases' = maintenancePhases]_vars
  /\ [][(res.kind = "reset" /\ ElapsedMs = 0 /\ StatusStep) =>
          /\ res'.progress = 0
          /\ res'.phaseIndex = 0
          /\ ~res'.isComplete
          /\ res'.phases = Phases]_vars

\* a zero snapshot of a run that a reset started after the run started at
\* load was over
C6_Witness ==
  /\ IsStatus(res)
  /\ res.startTime >= TotalMs
  /\ res.progress = 0
  /\ ~res.isComplete
  /\ maintenanceState.startTime = res.startTime

C8_NegativeElapsedAsZero ==
  [][(clock' < maintenanceState.startTime /\ StatusStep) =>
       /\ res'.progress = 0
       /\ res'.phaseIndex = 0
       /\ ~res'.isComplete
       /\ res'.remainingTimeSeconds = TotalMs]_vars

\* C9: a status response is the one a server that has served no request
\* since its start timestamp was set returns at the same clock readings:
\* it depends on the start timestamp and the clock only
C9_SnapshotFromStartAndClock ==
  [][StatusStep =>
       res' = StatusBody(FreshState(maintenanceState.startTime, 0),
                         clock, clock')]_vars

\* a snapshot of a run in progress has been served and the clock is back at
\* an instant of that run before the read: the next read is served at an
\* earlier instant from stored results of a later one
C9_Witness ==
  /\ IsStatus(res)
  /\ res.progress > 0
  /\ maintenanceState.currentProgress = res.progress
  /\ maintenanceState.lastUpdated > clock
  /\ clock > maintenanceState.startTime

\* the format claimed for a remaining time of remainingMs milliseconds
ClaimedRemainingTime(remainingMs) ==
  LET remainingMinutes == (remainingMs + 59999) \div 60000
      hours            == remainingMinutes \div 60
      minutes          == remainingMinutes % 60
      h == IF hours = 1 THEN "1 hour" ELSE ToString(hours) \o " hours"
      m == IF minutes = 1 THEN "1 minute" ELSE ToString(minutes) \o " minutes"
  IN  IF remainingMs <= 0 THEN "Complete"
      ELSE IF remainingMinutes < 60 THEN m
      ELSE IF minutes = 0 THEN h
      ELSE h \o " " \o m

\* C10: the rendered remaining time is rounded up to whole minutes and
\* uses the singular whenever the hour count or the minute count is 1
C10_RemainingTimeFormat ==
  remainingTime # "" =>
    remainingTime = ClaimedRemainingTime(maintenanceStatus.remainingTimeSeconds)

\* a request of the client completes with a failure: it is no longer
\* pending and no response has left for the client
FailureStep == pending' < pending /\ inflight' = inflight

\* a response arrives at the client
ArrivalStep == Len(inflight') < Len(inflight)

ExactlyOneView ==
  /\ ShowsLoading \/ ShowsError \/ ShowsNormal
  /\ ~(ShowsLoading /\ ShowsError)
  /\ ~(ShowsLoading /\ ShowsNormal)
  /\ ~(ShowsError /\ ShowsNormal)

\* C11 as stated: the client renders exactly one of Loading, Error and
\* Normal; Loading as long as no response has been received successfully,
\* and after that Error exactly when the error state is set
C11_LoadingBeforeFirstSuccess ==
  /\ ExactlyOneView
  /\ maintenanceStatus = NoBody => ShowsLoading
  /\ maintenanceStatus # NoBody => (ShowsError <=> error # NoError)

\* C11 amended: the client renders exactly one of Loading, Error and
\* Normal; Loading until its first request completes, successfully or not;
\* Error after a request that failed, also when no snapshot was received
\* yet; Normal with the snapshot just received after a response that
\* arrived, also after an error; and the view changes at no other step
C11_ViewFollowsLastCompletion ==
  /\ [](ExactlyOneView)
  /\ [](ShowsLoading => (maintenanceStatus = NoBody /\ error = NoError))
  /\ [](ShowsError => error = FetchError)
  /\ [][FailureStep => ShowsError']_vars
  /\ [][ArrivalStep =>
          /\ ShowsNormal'
          /\ \E i \in 1..Len(inflight) : maintenanceStatus' = inflight[i]]_vars
  /\ [][(ShowsLoading' # ShowsLoading \/ ShowsError' # ShowsError) =>
          (FailureStep \/ ArrivalStep)]_vars
  /\ [][~ShowsLoading => ~ShowsLoading']_vars

\* the first requests of the client failed: Error with no snapshot received
C11_Witness ==
  /\ ShowsError
  /\ maintenanceStatus = NoBody
  /\ pending = 0
  /\ inflight = << >>

\* C12: the displayed snapshot is the response that arrived last, whichever
\* response on its way that is; it changes at no other step; the progress
\* of the server's successive responses never decreases (and yet the
\* displayed progress can, see the witness)
C12_LastArrivalWins ==
  /\ [][ArrivalStep =>
          \E i \in 1..Len(inflight) :
            /\ inflight' = RemoveAt(inflight, i)
            /\ maintenanceStatus' = inflight[i]]_vars
  /\ [][maintenanceStatus' # maintenanceStatus => ArrivalStep]_vars
  /\ [][(IsStatus(res) /\ IsStatus(res')) =>
          res'.progress >= res.progress]_vars

\* every request is answered and every response has arrived, the last
\* request to complete succeeded, and the displayed progress is below that
\* of the server's latest response: that response arrived first and was
\* overwritten by an earlier one
C12_Witness ==
  /\ ShowsNormal
  /\ pending = 0
  /\ inflight = << >>
  /\ IsStatus(res)
  /\ maintenanceStatus.startTime = res.startTime
  /\ maintenanceStatus.progress < res.progress

====
